---- MODULE Spec2Model ----
(***************************************************************************)
(* Model of the staging transaction orchestrator                           *)
(* (src/transaction/core/staging_transaction.rs): a journal file per       *)
(* staging identity, an advisory lock per journal, and handles that hold   *)
(* the operation history and the transaction under construction.           *)
(***************************************************************************)
EXTENDS Integers, Sequences, FiniteSets, TLC

\* ------------------------------------------------------------------ bounds
\* a mutator is called only while the history holds fewer operations
MaxOps == 3
\* number of I/O failures the storage injects in one behaviour
MaxIoFailures == 1
\* number of outputs of the journals SpecOutputs starts from
MaxOutputs == 4
\* number of records of the journals SpecOpen starts from
MaxRecords == 4

\* one staging identity, and two places where the caller may hold its handle
Ids == {1}
Slots == {1, 2}
Outpoints == {1, 2}
Addresses == {1, 2}
InputSet == {[ptr |-> 1, value |-> 1], [ptr |-> 1, value |-> 2], [ptr |-> 2, value |-> 1]}
OutputSet == {[address |-> 1, value |-> 1], [address |-> 2, value |-> 1]}
ChangeAddresses == {1}
Indices == 0 .. 2
Witnesses == {1}
ProtocolMagics == {764824073}

\* ------------------------------------------------------------ journal header
\* b"TRANSACTION_V1"
MAGIC_TRANSACTION_V1 == <<84, 82, 65, 78, 83, 65, 67, 84, 73, 79, 78, 95, 86, 49>>

\* serialize::utils::write_u32: four bytes, most significant first
write_u32(v) ==
    <<(v \div 16777216) % 256, (v \div 65536) % 256, (v \div 256) % 256, v % 256>>

\* serialize::utils::read_u32 of a record: fails on fewer than four bytes
read_u32(bytes) ==
    IF Len(bytes) < 4
    THEN [ok |-> FALSE, v |-> 0]
    ELSE [ok |-> TRUE,
          v |-> bytes[1] * 16777216 + bytes[2] * 65536 + bytes[3] * 256 + bytes[4]]

\* ----------------------------------------------------------------- Operation
\* an Operation is [op, a, b]; a and b hold the payload of the variant
Op(name, a, b) == [op |-> name, a |-> a, b |-> b]
OpAddInput(i) == Op("AddInput", i.ptr, i.value)
OpRemoveInput(p) == Op("RemoveInput", p, 0)
OpAddOutput(o) == Op("AddOutput", o.address, o.value)
OpRemoveOutput(ix) == Op("RemoveOutput", ix, 0)
OpAddChange(c) == Op("AddChange", c.address, 0)
OpRemoveChange(addr) == Op("RemoveChange", addr, 0)
OpFinalize == Op("Finalize", 0, 0)
OpSignature(w) == Op("Signature", w, 0)

\* Operation::serialize: a discriminant tag followed by the variant's payload
serialize(o) ==
    CASE o.op = "AddInput" -> <<1, o.a, o.b>>
      [] o.op = "RemoveInput" -> <<2, o.a>>
      [] o.op = "AddOutput" -> <<3, o.a, o.b>>
      [] o.op = "RemoveOutput" -> <<4, o.a>>
      [] o.op = "AddChange" -> <<5, o.a>>
      [] o.op = "RemoveChange" -> <<6, o.a>>
      [] o.op = "Finalize" -> <<7>>
      [] OTHER -> <<8, o.a>>

\* Operation::deserialize: rejects unknown tags and malformed payloads
deserialize(bytes) ==
    LET bad == [ok |-> FALSE, op |-> OpFinalize]
        good(o) == [ok |-> TRUE, op |-> o]
    IN  IF Len(bytes) = 0 THEN bad
        ELSE CASE bytes[1] = 1 /\ Len(bytes) = 3 -> good(Op("AddInput", bytes[2], bytes[3]))
               [] bytes[1] = 2 /\ Len(bytes) = 2 -> good(Op("RemoveInput", bytes[2], 0))
               [] bytes[1] = 3 /\ Len(bytes) = 3 -> good(Op("AddOutput", bytes[2], bytes[3]))
               [] bytes[1] = 4 /\ Len(bytes) = 2 -> good(Op("RemoveOutput", bytes[2], 0))
               [] bytes[1] = 5 /\ Len(bytes) = 2 -> good(Op("AddChange", bytes[2], 0))
               [] bytes[1] = 6 /\ Len(bytes) = 2 -> good(Op("RemoveChange", bytes[2], 0))
               [] bytes[1] = 7 /\ Len(bytes) = 1 -> good(OpFinalize)
               [] bytes[1] = 8 /\ Len(bytes) = 2 -> good(Op("Signature", bytes[2], 0))
               [] OTHER -> bad

\* --------------------------------------------------------------- Transaction
\* Transaction::new
NewTransaction ==
    [inputs |-> <<>>, outputs |-> <<>>, change |-> <<>>, finalized |-> FALSE,
     signatures |-> <<>>]

\* a removal that drops the last element whatever the position asked for
RemoveAt_last(s, k) == SubSeq(s, 1, Len(s) - 1)

\* Vec::remove, positions counted from 1
RemoveAt(s, k) == SubSeq(s, 1, k - 1) \o SubSeq(s, k + 1, Len(s))

HasInput(tx, p) == \E k \in 1 .. Len(tx.inputs) : tx.inputs[k].ptr = p
HasChange(tx, addr) == \E k \in 1 .. Len(tx.change) : tx.change[k].address = addr
InputAt(tx, p) == CHOOSE k \in 1 .. Len(tx.inputs) : tx.inputs[k].ptr = p
ChangeAt(tx, addr) == CHOOSE k \in 1 .. Len(tx.change) : tx.change[k].address = addr

TxOk(tx) == [ok |-> TRUE, tx |-> tx, err |-> "none"]
TxErr(tx, e) == [ok |-> FALSE, tx |-> tx, err |-> e]

\* the transition table of the Transaction state machine; an operation that is
\* rejected leaves the transaction as it was. guardFinalized and guardDoubleSpend
\* tell whether the two preconditions are enforced
apply_operation(tx, o, guardFinalized, guardDoubleSpend) ==
    CASE o.op = "Signature" ->
            TxOk([tx EXCEPT !.signatures = Append(@, o.a)])
      [] o.op = "Finalize" ->
            IF tx.finalized THEN TxErr(tx, "AlreadyFinalized")
            ELSE TxOk([tx EXCEPT !.finalized = TRUE])
      [] OTHER ->
            IF guardFinalized /\ tx.finalized THEN TxErr(tx, "FinalizedImmutable")
            ELSE CASE o.op = "AddInput" ->
                        IF guardDoubleSpend /\ HasInput(tx, o.a)
                        THEN TxErr(tx, "DoubleSpend")
                        ELSE TxOk([tx EXCEPT !.inputs =
                                       Append(@, [ptr |-> o.a, value |-> o.b])])
                   [] o.op = "RemoveInput" ->
                        IF ~HasInput(tx, o.a) THEN TxErr(tx, "NotFound")
                        ELSE TxOk([tx EXCEPT !.inputs = RemoveAt(@, InputAt(tx, o.a))])
                   [] o.op = "AddOutput" ->
                        TxOk([tx EXCEPT !.outputs =
                                  Append(@, [address |-> o.a, value |-> o.b])])
                   [] o.op = "RemoveOutput" ->
                        IF o.a >= Len(tx.outputs) THEN TxErr(tx, "IndexOutOfRange")
                        ELSE TxOk([tx EXCEPT !.outputs = RemoveAt(@, o.a + 1)])
                   [] o.op = "AddChange" ->
                        IF HasChange(tx, o.a)
                        THEN TxOk([tx EXCEPT !.change[ChangeAt(tx, o.a)] =
                                       [address |-> o.a]])
                        ELSE TxOk([tx EXCEPT !.change = Append(@, [address |-> o.a])])
                   [] OTHER ->
                        IF ~HasChange(tx, o.a) THEN TxErr(tx, "NotFound")
                        ELSE TxOk([tx EXCEPT !.change = RemoveAt(@, ChangeAt(tx, o.a))])

\* update_with that accepts an outpoint already present
update_with_double_spend(tx, o) == apply_operation(tx, o, TRUE, FALSE)

\* update_with that lets structural edits through after Finalize
update_with_after_finalize(tx, o) == apply_operation(tx, o, FALSE, TRUE)

\* Transaction::update_with
update_with(tx, o) == apply_operation(tx, o, TRUE, TRUE)

\* ------------------------------------------------------------------- state
VARIABLES
    files,       \* the journal file of each identity: [exists, recs]
    locks,       \* the identities whose lock is held
    handles,     \* the StagingTransaction held in each slot of the caller
    snapshot,    \* the Export the caller holds
    result,      \* the last call and what it returned
    ioFailures,  \* I/O failures injected so far
    panicked     \* the process was terminated by a failed assertion

vars == <<files, locks, handles, snapshot, result, ioFailures, panicked>>

NoFile == [exists |-> FALSE, recs |-> <<>>]
File(recs) == [exists |-> TRUE, recs |-> recs]

NoHandle ==
    [live |-> FALSE, id |-> 0, protocol_magic |-> 0, operations |-> <<>>,
     transaction |-> NewTransaction]
Handle(id, pm, operations, transaction) ==
    [live |-> TRUE, id |-> id, protocol_magic |-> pm, operations |-> operations,
     transaction |-> transaction]

NoExport ==
    [present |-> FALSE, staging_id |-> 0, magic |-> <<>>, protocol_magic |-> 0,
     transaction |-> NewTransaction]

Result(call, slot, ret, err, detail) ==
    [call |-> call, slot |-> slot, ret |-> ret, err |-> err, detail |-> detail]

Init ==
    /\ files = [id \in Ids |-> NoFile]
    /\ locks = {}
    /\ handles = [s \in Slots |-> NoHandle]
    /\ snapshot = NoExport
    /\ result = Result("none", 0, "Ok", "none", <<>>)
    /\ ioFailures = 0
    /\ panicked = FALSE

\* ------------------------------------------------------------------ append
Outcome(h, recs, ret, err) == [h |-> h, recs |-> recs, ret |-> ret, err |-> err]

\* append that writes the record before the transaction has accepted it
append_journal_first(h, recs, o, ioOk) ==
    LET u == update_with(h.transaction, o)
    IN  IF ~ioOk
        THEN Outcome(h, recs, "AppendFile", "IoError")
        ELSE IF ~u.ok
        THEN Outcome(h, Append(recs, serialize(o)), "TransactionIsInvalidState", u.err)
        ELSE Outcome([h EXCEPT !.transaction = u.tx, !.operations = Append(@, o)],
                     Append(recs, serialize(o)), "Ok", "none")

\* append that pushes the operation onto the history before the write
append_history_first(h, recs, o, ioOk) ==
    LET u == update_with(h.transaction, o)
        pushed == [h EXCEPT !.transaction = u.tx, !.operations = Append(@, o)]
    IN  IF ~u.ok
        THEN Outcome(h, recs, "TransactionIsInvalidState", u.err)
        ELSE IF ~ioOk
        THEN Outcome(pushed, recs, "AppendFile", "IoError")
        ELSE Outcome(pushed, Append(recs, serialize(o)), "Ok", "none")

\* StagingTransaction::append: update the transaction, then the staging file,
\* then the in-memory list of operations; each `?` returns at the first error
append(h, recs, o, ioOk) ==
    LET u == update_with(h.transaction, o)
    IN  IF ~u.ok
        THEN Outcome(h, recs, "TransactionIsInvalidState", u.err)
        ELSE IF ~ioOk
        THEN Outcome([h EXCEPT !.transaction = u.tx], recs, "AppendFile", "IoError")
        ELSE Outcome([h EXCEPT !.transaction = u.tx, !.operations = Append(@, o)],
                     Append(recs, serialize(o)), "Ok", "none")

\* the handle and the journal after each statement of append that ran: the
\* update of the transaction, the append to the staging file, the push onto
\* the list of operations; a statement that fails is the last one to run
append_steps(h, recs, o, ioOk) ==
    LET u == update_with(h.transaction, o)
        updated == [h EXCEPT !.transaction = u.tx]
        pushed == [updated EXCEPT !.operations = Append(@, o)]
    IN  IF ~u.ok THEN <<[h |-> h, recs |-> recs]>>
        ELSE IF ~ioOk THEN <<[h |-> updated, recs |-> recs]>>
        ELSE <<[h |-> updated, recs |-> recs],
               [h |-> updated, recs |-> Append(recs, serialize(o))],
               [h |-> pushed, recs |-> Append(recs, serialize(o))]>>

\* one public mutator call on the handle of slot s; ioOk tells whether the
\* journal accepts the record (a rejected operation never reaches the journal)
Edit(s, o, ioOk, call) ==
    /\ ~panicked
    /\ handles[s].live
    /\ Len(handles[s].operations) < MaxOps
    /\ ~ioOk => ioFailures < MaxIoFailures /\ update_with(handles[s].transaction, o).ok
    /\ LET h == handles[s]
           r == append(h, files[h.id].recs, o, ioOk)
       IN  /\ handles' = [handles EXCEPT ![s] = r.h]
           /\ files' = [files EXCEPT ![h.id] = File(r.recs)]
           /\ result' = Result(call, s, r.ret, r.err, <<>>)
           /\ ioFailures' = IF r.ret = "AppendFile" THEN ioFailures + 1 ELSE ioFailures
    /\ UNCHANGED <<locks, snapshot, panicked>>

finalize(s, ioOk) == Edit(s, OpFinalize, ioOk, "finalize")
add_signature(s, w, ioOk) == Edit(s, OpSignature(w), ioOk, "add_signature")
add_input(s, i, ioOk) == Edit(s, OpAddInput(i), ioOk, "add_input")
add_change(s, c, ioOk) == Edit(s, OpAddChange(c), ioOk, "add_change")
add_output(s, o, ioOk) == Edit(s, OpAddOutput(o), ioOk, "add_output")
remove_input(s, p, ioOk) == Edit(s, OpRemoveInput(p), ioOk, "remove_input")
remove_change(s, addr, ioOk) == Edit(s, OpRemoveChange(addr), ioOk, "remove_change")
remove_output(s, ix, ioOk) == Edit(s, OpRemoveOutput(ix), ioOk, "remove_output")

\* ----------------------------------------------------------- new / destroy
Created(ret, err, file, h) == [ret |-> ret, err |-> err, file |-> file, h |-> h]

\* StagingTransaction::new_with. f is the step the storage fails at: 1 taking
\* the lock or opening the writer, 2 the magic record, 3 the protocol magic
\* record; any other value lets every step through
new_with(file, locked, protocol_magic, id, f) ==
    IF file.exists
    THEN Created("panic", "Staging transaction already exists", file, NoHandle)
    ELSE IF locked
    THEN Created("AppendFile", "LockError", file, NoHandle)
    ELSE IF f = 1
    THEN Created("AppendFile", "IoError", file, NoHandle)
    ELSE IF f = 2
    THEN Created("AppendFile", "IoError", File(<<>>), NoHandle)
    ELSE IF f = 3
    THEN Created("AppendFile", "IoError", File(<<MAGIC_TRANSACTION_V1>>), NoHandle)
    ELSE Created("Ok", "none",
                 File(<<MAGIC_TRANSACTION_V1, write_u32(protocol_magic)>>),
                 Handle(id, protocol_magic, <<>>, NewTransaction))

FreeSlot(s) == ~handles[s].live /\ \A t \in Slots : t < s => handles[t].live

\* StagingId::generate: an identity no journal exists for
Fresh(id) == ~files[id].exists /\ id \notin locks

\* StagingTransaction::new
New(s, protocol_magic, f) ==
    /\ ~panicked
    /\ FreeSlot(s)
    /\ f # 0 => ioFailures < MaxIoFailures
    /\ \E id \in Ids :
          /\ Fresh(id)
          /\ LET c == new_with(files[id], id \in locks, protocol_magic, id, f)
             IN  /\ files' = [files EXCEPT ![id] = c.file]
                 /\ handles' = [handles EXCEPT ![s] = c.h]
                 /\ locks' = IF c.ret = "Ok" THEN locks \cup {id} ELSE locks
                 /\ result' = Result("new", s, c.ret, c.err, <<>>)
                 /\ ioFailures' = IF f # 0 THEN ioFailures + 1 ELSE ioFailures
    /\ UNCHANGED <<snapshot, panicked>>

\* dropping the handle: the writer, and with it the lock, is released
Close(s) ==
    /\ ~panicked
    /\ handles[s].live
    /\ handles' = [handles EXCEPT ![s] = NoHandle]
    /\ locks' = locks \ {handles[s].id}
    /\ result' = Result("close", s, "Ok", "none", <<>>)
    /\ UNCHANGED <<files, snapshot, ioFailures, panicked>>

\* destroy that keeps the lock when the file cannot be removed
Destroy_keeping_lock(s, ioOk) ==
    /\ ~panicked
    /\ handles[s].live
    /\ ~ioOk => ioFailures < MaxIoFailures
    /\ handles' = [handles EXCEPT ![s] = NoHandle]
    /\ locks' = IF ioOk THEN locks \ {handles[s].id} ELSE locks
    /\ files' = IF ioOk THEN [files EXCEPT ![handles[s].id] = NoFile] ELSE files
    /\ result' = IF ioOk THEN Result("destroy", s, "Ok", "none", <<>>)
                 ELSE Result("destroy", s, "AppendFile", "IoError", <<>>)
    /\ ioFailures' = IF ioOk THEN ioFailures ELSE ioFailures + 1
    /\ UNCHANGED <<snapshot, panicked>>

\* StagingTransaction::destroy: close the writer, remove the file
Destroy(s, ioOk) ==
    /\ ~panicked
    /\ handles[s].live
    /\ ~ioOk => ioFailures < MaxIoFailures
    /\ handles' = [handles EXCEPT ![s] = NoHandle]
    /\ locks' = locks \ {handles[s].id}
    /\ files' = IF ioOk THEN [files EXCEPT ![handles[s].id] = NoFile] ELSE files
    /\ result' = IF ioOk THEN Result("destroy", s, "Ok", "none", <<>>)
                 ELSE Result("destroy", s, "AppendFile", "IoError", <<>>)
    /\ ioFailures' = IF ioOk THEN ioFailures ELSE ioFailures + 1
    /\ UNCHANGED <<snapshot, panicked>>

\* ----------------------------------------------------------- read_from_file
Opened(ret, err, detail, h) == [ret |-> ret, err |-> err, detail |-> detail, h |-> h]

RECURSIVE replay_best_effort(_, _, _, _, _, _)
\* a replay that stops at the first record it cannot take and returns the
\* handle built from the records before it
replay_best_effort(id, protocol_magic, recs, k, operations, transaction) ==
    IF k > Len(recs)
    THEN Opened("Ok", "none", <<>>, Handle(id, protocol_magic, operations, transaction))
    ELSE LET d == deserialize(recs[k])
             u == update_with(transaction, d.op)
         IN  IF ~d.ok \/ ~u.ok
             THEN Opened("Ok", "none", <<>>,
                         Handle(id, protocol_magic, operations, transaction))
             ELSE replay_best_effort(id, protocol_magic, recs, k + 1,
                                     Append(operations, d.op), u.tx)

RECURSIVE replay(_, _, _, _, _, _)
\* the loop of read_from_file: decode each record, push it, apply it
replay(id, protocol_magic, recs, k, operations, transaction) ==
    IF k > Len(recs)
    THEN Opened("Ok", "none", <<>>, Handle(id, protocol_magic, operations, transaction))
    ELSE LET d == deserialize(recs[k])
         IN  IF ~d.ok
             THEN Opened("Operation", "ParsingOperationError", <<>>, NoHandle)
             ELSE LET u == update_with(transaction, d.op)
                  IN  IF ~u.ok
                      THEN Opened("TransactionIsInvalidState", u.err, <<>>, NoHandle)
                      ELSE replay(id, protocol_magic, recs, k + 1,
                                  Append(operations, d.op), u.tx)

\* parse that compares the magic over the bytes the record holds
parse_magic_prefix(id, recs) ==
    IF Len(recs) = 0
    THEN Opened("NoMagic", "none", <<>>, NoHandle)
    ELSE IF recs[1] # SubSeq(MAGIC_TRANSACTION_V1, 1, Len(recs[1]))
    THEN Opened("InvalidMagic", "none", recs[1], NoHandle)
    ELSE IF Len(recs) = 1
    THEN Opened("MissingProtocolMagic", "none", <<>>, NoHandle)
    ELSE IF ~read_u32(recs[2]).ok
    THEN Opened("AppendFile", "IoError", <<>>, NoHandle)
    ELSE replay(id, read_u32(recs[2]).v, recs, 3, <<>>, NewTransaction)

\* StagingTransaction::read_from_file, once the lock is taken and the reader
\* is open: the magic, the protocol magic, then every operation
parse(id, recs) ==
    IF Len(recs) = 0
    THEN Opened("NoMagic", "none", <<>>, NoHandle)
    ELSE IF recs[1] # MAGIC_TRANSACTION_V1
    THEN Opened("InvalidMagic", "none", recs[1], NoHandle)
    ELSE IF Len(recs) = 1
    THEN Opened("MissingProtocolMagic", "none", <<>>, NoHandle)
    ELSE IF ~read_u32(recs[2]).ok
    THEN Opened("AppendFile", "IoError", <<>>, NoHandle)
    ELSE replay(id, read_u32(recs[2]).v, recs, 3, <<>>, NewTransaction)

\* read_from_file that opens the reader without taking the lock
read_from_file_unlocked(file, locked, id, ioOk) ==
    IF ~file.exists \/ ~ioOk
    THEN Opened("AppendFile", "IoError", <<>>, NoHandle)
    ELSE parse(id, file.recs)

\* StagingTransaction::read_from_file
read_from_file(file, locked, id, ioOk) ==
    IF locked
    THEN Opened("AppendFile", "LockError", <<>>, NoHandle)
    ELSE IF ~file.exists \/ ~ioOk
    THEN Opened("AppendFile", "IoError", <<>>, NoHandle)
    ELSE parse(id, file.recs)

ReadFromFile(s, id, ioOk) ==
    /\ ~panicked
    /\ FreeSlot(s)
    /\ ~ioOk => ioFailures < MaxIoFailures /\ files[id].exists /\ id \notin locks
    /\ LET r == read_from_file(files[id], id \in locks, id, ioOk)
       IN  /\ handles' = [handles EXCEPT ![s] = r.h]
           /\ locks' = IF r.ret = "Ok" THEN locks \cup {id} ELSE locks
           /\ result' = Result("read_from_file", s, r.ret, r.err, r.detail)
    /\ ioFailures' = IF ioOk THEN ioFailures ELSE ioFailures + 1
    /\ UNCHANGED <<files, snapshot, panicked>>

\* ------------------------------------------------------- remove_outputs_for
RECURSIVE remove_outputs_for_from(_, _, _, _, _, _)
\* the loop of remove_outputs_for from `index` on; n appends were issued so
\* far and the journal refuses the one numbered failAt
remove_outputs_for_from(h, recs, address, index, failAt, n) ==
    IF index = Len(h.transaction.outputs)
    THEN Outcome(h, recs, "Ok", "none")
    ELSE IF h.transaction.outputs[index + 1].address = address
         THEN LET r == append(h, recs, OpRemoveOutput(index), failAt # n + 1)
              IN  IF r.ret # "Ok" THEN r
                  ELSE remove_outputs_for_from(r.h, r.recs, address, index, failAt, n + 1)
         ELSE remove_outputs_for_from(h, recs, address, index + 1, failAt, n)

RECURSIVE remove_outputs_for_advancing_from(_, _, _, _, _, _)
\* the loop that also advances the index after a removal
remove_outputs_for_advancing_from(h, recs, address, index, failAt, n) ==
    IF index >= Len(h.transaction.outputs)
    THEN Outcome(h, recs, "Ok", "none")
    ELSE IF h.transaction.outputs[index + 1].address = address
         THEN LET r == append(h, recs, OpRemoveOutput(index), failAt # n + 1)
              IN  IF r.ret # "Ok" THEN r
                  ELSE remove_outputs_for_advancing_from(r.h, r.recs, address, index + 1,
                                                         failAt, n + 1)
         ELSE remove_outputs_for_advancing_from(h, recs, address, index + 1, failAt, n)

remove_outputs_for_advancing(h, recs, address, failAt) ==
    remove_outputs_for_advancing_from(h, recs, address, 0, failAt, 0)

\* StagingTransaction::remove_outputs_for
remove_outputs_for(h, recs, address, failAt) ==
    remove_outputs_for_from(h, recs, address, 0, failAt, 0)

Step(index, h, recs, ret) == [index |-> index, h |-> h, recs |-> recs, ret |-> ret]

RECURSIVE remove_outputs_for_steps_stuck(_, _, _, _, _, _, _)
\* the loop with an index that stays where it is on an output to another address
remove_outputs_for_steps_stuck(h, recs, address, index, failAt, n, fuel) ==
    LET here == <<Step(index, h, recs, "Ok")>>
    IN  IF index = Len(h.transaction.outputs) \/ fuel = 0
        THEN here
        ELSE IF h.transaction.outputs[index + 1].address = address
             THEN LET r == append(h, recs, OpRemoveOutput(index), failAt # n + 1)
                  IN  IF r.ret # "Ok" THEN here \o <<Step(index, r.h, r.recs, r.ret)>>
                      ELSE here \o remove_outputs_for_steps_stuck(r.h, r.recs, address, index,
                                                                  failAt, n + 1, fuel - 1)
             ELSE here \o remove_outputs_for_steps_stuck(h, recs, address, index,
                                                         failAt, n, fuel - 1)

RECURSIVE remove_outputs_for_steps(_, _, _, _, _, _, _)
\* the scan index, the handle and the journal at the head of each iteration of
\* the loop of remove_outputs_for, followed by what the loop ends with: the
\* head at which `index != len` is false, or the error of remove_output. At
\* most `fuel` iterations are followed
remove_outputs_for_steps(h, recs, address, index, failAt, n, fuel) ==
    LET here == <<Step(index, h, recs, "Ok")>>
    IN  IF index = Len(h.transaction.outputs) \/ fuel = 0
        THEN here
        ELSE IF h.transaction.outputs[index + 1].address = address
             THEN LET r == append(h, recs, OpRemoveOutput(index), failAt # n + 1)
                  IN  IF r.ret # "Ok" THEN here \o <<Step(index, r.h, r.recs, r.ret)>>
                      ELSE here \o remove_outputs_for_steps(r.h, r.recs, address, index,
                                                            failAt, n + 1, fuel - 1)
             ELSE here \o remove_outputs_for_steps(h, recs, address, index + 1,
                                                   failAt, n, fuel - 1)

RemoveOutputsFor(s, address, failAt) ==
    /\ ~panicked
    /\ handles[s].live
    /\ failAt # 0 => ioFailures < MaxIoFailures
    /\ LET h == handles[s]
           r == remove_outputs_for(h, files[h.id].recs, address, failAt)
       IN  /\ failAt # 0 => r.ret = "AppendFile"
           /\ handles' = [handles EXCEPT ![s] = r.h]
           /\ files' = [files EXCEPT ![h.id] = File(r.recs)]
           /\ result' = Result("remove_outputs_for", s, r.ret, r.err, <<>>)
           /\ ioFailures' = IF r.ret = "AppendFile" THEN ioFailures + 1 ELSE ioFailures
    /\ UNCHANGED <<locks, snapshot, panicked>>

\* ------------------------------------------------------------ export / import
\* hex::encode: two hexadecimal digits per byte
hex_encode(bytes) ==
    [k \in 1 .. 2 * Len(bytes) |->
        IF k % 2 = 1 THEN bytes[(k + 1) \div 2] \div 16 ELSE bytes[k \div 2] % 16]

\* a conversion that labels the snapshot with the bytes of the magic token
ExportFrom_label_bytes(st) ==
    [present |-> TRUE, staging_id |-> st.id, magic |-> MAGIC_TRANSACTION_V1,
     protocol_magic |-> st.protocol_magic, transaction |-> st.transaction]

\* From<&StagingTransaction> for Export
ExportFrom(st) ==
    [present |-> TRUE, staging_id |-> st.id, magic |-> hex_encode(MAGIC_TRANSACTION_V1),
     protocol_magic |-> st.protocol_magic, transaction |-> st.transaction]

\* StagingTransaction::export
Export(s) ==
    /\ ~panicked
    /\ handles[s].live
    /\ snapshot' = ExportFrom(handles[s])
    /\ result' = Result("export", s, "Ok", "none", <<>>)
    /\ UNCHANGED <<files, locks, handles, ioFailures, panicked>>

\* import that issues the outputs before the inputs
ImportOps_outputs_first(transaction) ==
    [k \in 1 .. Len(transaction.outputs) |-> OpAddOutput(transaction.outputs[k])]
    \o [k \in 1 .. Len(transaction.inputs) |-> OpAddInput(transaction.inputs[k])]
    \o (IF transaction.finalized THEN <<OpFinalize>> ELSE <<>>)

\* import that also re-issues the change entries and the signatures
ImportOps_everything(transaction) ==
    [k \in 1 .. Len(transaction.inputs) |-> OpAddInput(transaction.inputs[k])]
    \o [k \in 1 .. Len(transaction.outputs) |-> OpAddOutput(transaction.outputs[k])]
    \o [k \in 1 .. Len(transaction.change) |-> OpAddChange(transaction.change[k])]
    \o (IF transaction.finalized THEN <<OpFinalize>> ELSE <<>>)
    \o [k \in 1 .. Len(transaction.signatures) |-> OpSignature(transaction.signatures[k])]

\* the operations import issues, in the order of its three loops
ImportOps(transaction) ==
    [k \in 1 .. Len(transaction.inputs) |-> OpAddInput(transaction.inputs[k])]
    \o [k \in 1 .. Len(transaction.outputs) |-> OpAddOutput(transaction.outputs[k])]
    \o (IF transaction.finalized THEN <<OpFinalize>> ELSE <<>>)

RECURSIVE import_from(_, _, _, _, _)
\* the mutator calls of import from the k-th on; the journal refuses the
\* append numbered failAt
import_from(h, recs, ops, k, failAt) ==
    IF k > Len(ops)
    THEN Outcome(h, recs, "Ok", "none")
    ELSE LET r == append(h, recs, ops[k], failAt # k)
         IN  IF r.ret # "Ok" THEN r ELSE import_from(r.h, r.recs, ops, k + 1, failAt)

\* import that removes the journal it created when a re-issued operation fails
import_rolled_back(file, locked, export, f) ==
    LET c == new_with(file, locked, export.protocol_magic, export.staging_id, f)
    IN  IF c.ret # "Ok"
        THEN c
        ELSE LET r == import_from(c.h, c.file.recs, ImportOps(export.transaction), 1, f - 3)
             IN  IF r.ret = "Ok" THEN Created(r.ret, r.err, File(r.recs), r.h)
                 ELSE Created(r.ret, r.err, file, NoHandle)

\* StagingTransaction::import. f numbers the step the storage fails at: 1..3
\* inside new_with, 3 + k the k-th append
import(file, locked, export, f) ==
    LET c == new_with(file, locked, export.protocol_magic, export.staging_id, f)
    IN  IF c.ret # "Ok"
        THEN c
        ELSE LET r == import_from(c.h, c.file.recs, ImportOps(export.transaction), 1, f - 3)
             IN  Created(r.ret, r.err, File(r.recs), IF r.ret = "Ok" THEN r.h ELSE NoHandle)

Import(s, f) ==
    /\ ~panicked
    /\ FreeSlot(s)
    /\ snapshot.present
    /\ f # 0 => ioFailures < MaxIoFailures
    /\ LET id == snapshot.staging_id
           c == import(files[id], id \in locks, snapshot, f)
       IN  /\ f # 0 => c.ret = "AppendFile" /\ c.err = "IoError"
           /\ files' = [files EXCEPT ![id] = c.file]
           /\ handles' = [handles EXCEPT ![s] = c.h]
           /\ locks' = IF c.ret = "Ok" THEN locks \cup {id} ELSE locks
           /\ result' = Result("import", s, c.ret, c.err, <<>>)
           /\ panicked' = (c.ret = "panic")
    /\ ioFailures' = IF f # 0 THEN ioFailures + 1 ELSE ioFailures
    /\ UNCHANGED snapshot

\* -------------------------------------------------------------------- Next
\* the life of a journal: create, edit, close, reopen, destroy
Next ==
    \/ \E s \in Slots, pm \in ProtocolMagics, f \in 0 .. 3 : New(s, pm, f)
    \/ \E s \in Slots : Close(s)
    \/ \E s \in Slots, ioOk \in BOOLEAN : Destroy(s, ioOk)
    \/ \E s \in Slots, id \in Ids, ioOk \in BOOLEAN : ReadFromFile(s, id, ioOk)
    \/ \E s \in Slots, ioOk \in BOOLEAN : finalize(s, ioOk)
    \/ \E s \in Slots, w \in Witnesses, ioOk \in BOOLEAN : add_signature(s, w, ioOk)
    \/ \E s \in Slots, i \in InputSet, ioOk \in BOOLEAN : add_input(s, i, ioOk)
    \/ \E s \in Slots, a \in ChangeAddresses, ioOk \in BOOLEAN :
          add_change(s, [address |-> a], ioOk)
    \/ \E s \in Slots, o \in OutputSet, ioOk \in BOOLEAN : add_output(s, o, ioOk)
    \/ \E s \in Slots, p \in Outpoints, ioOk \in BOOLEAN : remove_input(s, p, ioOk)
    \/ \E s \in Slots, a \in ChangeAddresses, ioOk \in BOOLEAN : remove_change(s, a, ioOk)
    \/ \E s \in Slots, ix \in Indices, ioOk \in BOOLEAN : remove_output(s, ix, ioOk)
    \/ \E s \in Slots, a \in Addresses, failAt \in 0 .. 2 :
          Len(handles[s].operations) < MaxOps /\ RemoveOutputsFor(s, a, failAt)

Spec == Init /\ [][Next]_vars

\* ------------------------------------------------------------------ import
\* the snapshots a caller may hand to import: an Export is deserialized from
\* outside, so every value of the type is possible
SeqUpTo(S, n) == UNION {[1 .. k -> S] : k \in 0 .. n}

ExportSet ==
    {[present |-> TRUE, staging_id |-> id, magic |-> hex_encode(MAGIC_TRANSACTION_V1),
      protocol_magic |-> pm,
      transaction |-> [inputs |-> ins, outputs |-> outs, change |-> ch,
                       finalized |-> fin, signatures |-> sigs]] :
        id \in Ids, pm \in ProtocolMagics, ins \in SeqUpTo(InputSet, 2),
        outs \in SeqUpTo(OutputSet, 1), ch \in SeqUpTo({[address |-> 1]}, 1),
        fin \in BOOLEAN, sigs \in SeqUpTo(Witnesses, 1)}

InitImport ==
    /\ files = [id \in Ids |-> NoFile]
    /\ locks = {}
    /\ handles = [s \in Slots |-> NoHandle]
    /\ snapshot \in ExportSet
    /\ result = Result("none", 0, "Ok", "none", <<>>)
    /\ ioFailures = 0
    /\ panicked = FALSE

NextImport ==
    \/ \E s \in Slots, f \in 0 .. 6 : Import(s, f)
    \/ \E s \in Slots : Export(s)
    \/ \E s \in Slots : Close(s)
    \/ \E s \in Slots, ioOk \in BOOLEAN : Destroy(s, ioOk)
    \/ \E s \in Slots, id \in Ids, ioOk \in BOOLEAN : ReadFromFile(s, id, ioOk)
    \/ \E s \in Slots, i \in InputSet, ioOk \in BOOLEAN : add_input(s, i, ioOk)

SpecImport == InitImport /\ [][NextImport]_vars

\* -------------------------------------------------------------------- open
\* the records a journal found on disk may hold: the magic token, a token of
\* another version, a truncated token, protocol magics, operations, garbage
WrongMagic == <<84, 82, 65, 78, 83, 65, 67, 84, 73, 79, 78, 95, 86, 50>>
ShortMagic == SubSeq(MAGIC_TRANSACTION_V1, 1, 13)

RecordSet ==
    {MAGIC_TRANSACTION_V1, WrongMagic, ShortMagic, write_u32(764824073), <<1, 2>>,
     serialize(OpAddInput([ptr |-> 1, value |-> 1])),
     serialize(OpAddInput([ptr |-> 1, value |-> 2])),
     serialize(OpAddOutput([address |-> 1, value |-> 1])),
     serialize(OpRemoveOutput(0)), serialize(OpFinalize), <<9>>}

InitOpen ==
    /\ files \in [Ids -> {File(recs) : recs \in SeqUpTo(RecordSet, MaxRecords)}]
    /\ locks = {}
    /\ handles = [s \in Slots |-> NoHandle]
    /\ snapshot = NoExport
    /\ result = Result("none", 0, "Ok", "none", <<>>)
    /\ ioFailures = 0
    /\ panicked = FALSE

NextOpen ==
    \/ \E s \in Slots, id \in Ids, ioOk \in BOOLEAN : ReadFromFile(s, id, ioOk)
    \/ \E s \in Slots : Close(s)
    \/ \E s \in Slots, i \in InputSet, ioOk \in BOOLEAN : add_input(s, i, ioOk)

SpecOpen == InitOpen /\ [][NextOpen]_vars

\* ----------------------------------------------------------------- outputs
\* a handle whose journal holds add_output calls only, as new and add_output
\* leave it, finalized or not
OutputSet4 == [address : Addresses, value : {1, 2}]

OutputsTransaction(outs, fin) ==
    [inputs |-> <<>>, outputs |-> outs, change |-> <<>>, finalized |-> fin,
     signatures |-> <<>>]

InitOutputs ==
    \E outs \in SeqUpTo(OutputSet4, MaxOutputs), fin \in BOOLEAN, pm \in ProtocolMagics :
        LET ops == ImportOps(OutputsTransaction(outs, fin))
        IN  /\ files = [id \in Ids |->
                          File(<<MAGIC_TRANSACTION_V1, write_u32(pm)>>
                               \o [k \in 1 .. Len(ops) |-> serialize(ops[k])])]
            /\ locks = Ids
            /\ handles = [s \in Slots |->
                            IF s = 1 THEN Handle(1, pm, ops, OutputsTransaction(outs, fin))
                            ELSE NoHandle]
            /\ snapshot = NoExport
            /\ result = Result("none", 0, "Ok", "none", <<>>)
            /\ ioFailures = 0
            /\ panicked = FALSE

NextOutputs ==
    \/ \E s \in Slots, a \in Addresses, failAt \in 0 .. 2 : RemoveOutputsFor(s, a, failAt)
    \/ \E s \in Slots, ix \in Indices, ioOk \in BOOLEAN : remove_output(s, ix, ioOk)
    \/ \E s \in Slots : Close(s)
    \/ \E s \in Slots, id \in Ids, ioOk \in BOOLEAN : ReadFromFile(s, id, ioOk)

SpecOutputs == InitOutputs /\ [][NextOutputs]_vars

\* ================================================================== claims
Mutators ==
    {"add_input", "remove_input", "add_output", "remove_output", "add_change",
     "remove_change", "finalize", "add_signature"}

\* what read_from_file returns for the journal of `id` once its lock is free
Reopened(id) == read_from_file(files[id], FALSE, id, TRUE)

\* C1: replay determinism. After any sequence of mutator calls on a live
\* handle, closing it and reopening its identity gives the Transaction and
\* the operation history the handle held before the close.
C1_ReplayDeterminism ==
    \A s \in Slots :
        handles[s].live =>
            LET r == Reopened(handles[s].id)
            IN  /\ r.ret = "Ok"
                /\ r.h.transaction = handles[s].transaction
                /\ r.h.operations = handles[s].operations

\* C2: no partial mutation on validation failure. A mutator call rejected by
\* the Transaction state machine leaves the in-memory Transaction, the
\* operation history and the journal's records as they were.
C2_NoPartialMutation ==
    [][\A s \in Slots :
          (result'.call \in Mutators /\ result'.slot = s
           /\ result'.ret = "TransactionIsInvalidState")
          => /\ handles'[s].live
             /\ handles'[s].transaction = handles[s].transaction
             /\ handles'[s].operations = handles[s].operations
             /\ Len(files'[handles[s].id].recs) = Len(files[handles[s].id].recs)
             /\ files' = files]_vars

\* C2 witness: add_input of an outpoint already present was just rejected
C2_Witness ==
    /\ result.call = "add_input"
    /\ result.ret = "TransactionIsInvalidState"
    /\ result.err = "DoubleSpend"
    /\ handles[result.slot].live
    /\ Len(handles[result.slot].transaction.inputs) = 1

\* C3: a journal failure does not let memory and disk diverge. When an edit
\* passes validation but the append fails, the mutator returns an error, the
\* in-memory Transaction and history are as before the call, and the
\* Transaction still equals the replay of the journal.
C3_JournalFailureLeavesMemory ==
    [][\A s \in Slots :
          (result'.call \in Mutators /\ result'.slot = s /\ result'.ret = "AppendFile")
          => /\ handles'[s].live
             /\ handles'[s].transaction = handles[s].transaction
             /\ handles'[s].operations = handles[s].operations
             /\ Reopened(handles[s].id)'.h.transaction = handles'[s].transaction]_vars

\* no two entries of the inputs of a live handle share an outpoint
DistinctOutpoints(tx) ==
    \A j, k \in 1 .. Len(tx.inputs) : tx.inputs[j].ptr = tx.inputs[k].ptr => j = k

Structural ==
    {"add_input", "remove_input", "add_output", "remove_output", "add_change",
     "remove_change"}

\* C5: finalize immutability. On a finalized handle every add_input,
\* add_output, remove_input, remove_output, add_change and remove_change call
\* fails with a validation error and leaves inputs, outputs and change
\* unchanged, whatever its arguments; add_signature is never rejected and,
\* when the journal takes the record, appends to signatures.
C5_FinalizeImmutability ==
    [][\A s \in Slots :
          (handles[s].live /\ handles[s].transaction.finalized /\ result'.slot = s)
          => /\ result'.call \in Structural
                => /\ result'.ret = "TransactionIsInvalidState"
                   /\ handles'[s].transaction.inputs = handles[s].transaction.inputs
                   /\ handles'[s].transaction.outputs = handles[s].transaction.outputs
                   /\ handles'[s].transaction.change = handles[s].transaction.change
             /\ result'.call = "add_signature"
                => /\ result'.ret # "TransactionIsInvalidState"
                   /\ result'.ret = "Ok"
                      => \E w \in Witnesses :
                            /\ handles'[s].transaction.signatures
                                  = Append(handles[s].transaction.signatures, w)
                            /\ handles'[s].operations
                                  = Append(handles[s].operations, OpSignature(w))]_vars

\* C5 witness: after finalize and a signature, an add_input that an empty
\* transaction would otherwise take was rejected
C5_Witness ==
    /\ result.call = "add_input"
    /\ result.ret = "TransactionIsInvalidState"
    /\ handles[result.slot].operations = <<OpFinalize, OpSignature(1)>>
    /\ handles[result.slot].transaction.inputs = <<>>
    /\ handles[result.slot].transaction.signatures = <<1>>

\* C6: finalize is one-way and not idempotent. finalize on finalized = false
\* sets finalized and appends exactly one Finalize record; finalize on
\* finalized = true returns an error and appends nothing; once finalized is
\* true it stays true on the handle and in every replay of its journal.
C6_FinalizeOneWay ==
    /\ [](\A s \in Slots :
            (handles[s].live /\ handles[s].transaction.finalized)
            => LET r == Reopened(handles[s].id)
               IN  r.ret = "Ok" /\ r.h.transaction.finalized)
    /\ [][\A s \in Slots :
             /\ (handles[s].live /\ handles'[s].live /\ handles[s].transaction.finalized)
                => handles'[s].transaction.finalized
             /\ (result'.call = "finalize" /\ result'.slot = s)
                => IF handles[s].transaction.finalized
                   THEN result'.ret = "TransactionIsInvalidState" /\ files' = files
                   ELSE result'.ret = "Ok"
                        => /\ handles'[s].transaction.finalized
                           /\ files'[handles[s].id].recs
                                 = Append(files[handles[s].id].recs, serialize(OpFinalize))]_vars

\* C7: exclusivity. At most one live handle per identity, its lock held as
\* long as it lives; read_from_file of an identity whose handle is alive
\* fails with the lock error, returns no handle and leaves the journal alone.
C7_Exclusivity ==
    /\ [](\A s, t \in Slots :
            (handles[s].live /\ handles[t].live /\ handles[s].id = handles[t].id)
            => s = t)
    /\ [](\A s \in Slots : handles[s].live => handles[s].id \in locks)
    /\ [][\A s \in Slots, id \in Ids, ioOk \in BOOLEAN :
             (ReadFromFile(s, id, ioOk)
              /\ \E t \in Slots : handles[t].live /\ handles[t].id = id)
             => /\ result'.ret = "AppendFile"
                /\ result'.err = "LockError"
                /\ handles' = handles
                /\ files' = files
                /\ locks' = locks]_vars

\* C7 witness: a second open was refused while the first handle lives
C7_Witness ==
    /\ result.call = "read_from_file"
    /\ result.ret = "AppendFile"
    /\ result.err = "LockError"
    /\ result.slot = 2
    /\ handles[1].live
    /\ ~handles[2].live

\* C8: header validation on open. read_from_file fails with NoMagic on a
\* journal with no records, with InvalidMagic carrying the bytes read when the
\* first record is not the magic token byte for byte, with MissingProtocolMagic
\* when the magic is the only record; it returns no handle in each case.
C8_HeaderValidation ==
    [][\A s \in Slots, id \in Ids :
          (ReadFromFile(s, id, TRUE) /\ files[id].exists /\ id \notin locks)
          => LET recs == files[id].recs
                 first == recs[1]
                 same == /\ Len(first) = 14
                         /\ \A k \in 1 .. 14 : first[k] = MAGIC_TRANSACTION_V1[k]
             IN  /\ Len(recs) = 0
                    => result'.ret = "NoMagic" /\ handles' = handles
                 /\ (Len(recs) >= 1 /\ ~same)
                    => /\ result'.ret = "InvalidMagic"
                       /\ result'.detail = first
                       /\ handles' = handles
                 /\ (Len(recs) = 1 /\ same)
                    => result'.ret = "MissingProtocolMagic" /\ handles' = handles
                 /\ result'.ret \in {"NoMagic", "InvalidMagic", "MissingProtocolMagic"}
                    => Len(recs) <= 1 \/ ~same]_vars

\* C8 witness: a journal that starts with a truncated token, followed by a
\* well-formed header and an operation, was refused with the bytes read
C8_Witness ==
    /\ result.call = "read_from_file"
    /\ result.ret = "InvalidMagic"
    /\ result.detail = ShortMagic
    /\ Len(files[1].recs) = 4
    /\ files[1].recs[2] = MAGIC_TRANSACTION_V1
    /\ \A s \in Slots : ~handles[s].live

\* C9: import result. For a snapshot whose inputs have distinct outpoints,
\* import gives a handle under the snapshot's identity and protocol magic with
\* the snapshot's inputs, outputs and finalized flag, whose history is one
\* AddInput per input, one AddOutput per output, then Finalize if finalized.
C9_ImportResult ==
    [][\A s \in Slots, f \in 0 .. 6 :
          (Import(s, f) /\ DistinctOutpoints(snapshot.transaction))
          => LET tx == snapshot.transaction
                 ni == Len(tx.inputs)
                 no == Len(tx.outputs)
                 h == handles'[s]
             IN  /\ (f = 0 /\ ~files[snapshot.staging_id].exists) => result'.ret = "Ok"
                 /\ result'.ret = "Ok"
                    => /\ h.live
                       /\ h.id = snapshot.staging_id
                       /\ h.protocol_magic = snapshot.protocol_magic
                       /\ h.transaction.inputs = tx.inputs
                       /\ h.transaction.outputs = tx.outputs
                       /\ h.transaction.finalized = tx.finalized
                       /\ Len(h.operations) = ni + no + (IF tx.finalized THEN 1 ELSE 0)
                       /\ \A k \in 1 .. ni : h.operations[k] = OpAddInput(tx.inputs[k])
                       /\ \A k \in 1 .. no :
                             h.operations[ni + k] = OpAddOutput(tx.outputs[k])
                       /\ tx.finalized => h.operations[ni + no + 1] = OpFinalize
                       /\ read_from_file(files'[h.id], FALSE, h.id, TRUE).h.operations
                             = h.operations]_vars

\* C9 witness: a finalized snapshot with 2 inputs, 1 output, a change entry
\* and a signature was imported: 2 + 1 + 1 records
C9_Witness ==
    /\ result.call = "import"
    /\ result.ret = "Ok"
    /\ Len(snapshot.transaction.change) = 1
    /\ Len(snapshot.transaction.signatures) = 1
    /\ Len(handles[result.slot].transaction.inputs) = 2
    /\ Len(handles[result.slot].transaction.outputs) = 1
    /\ handles[result.slot].transaction.finalized
    /\ Len(handles[result.slot].operations) = 4

RECURSIVE Without(_, _)
\* the outputs that do not pay `address`, in their order
Without(outs, address) ==
    IF outs = <<>> THEN <<>>
    ELSE IF Head(outs).address = address THEN Without(Tail(outs), address)
         ELSE <<Head(outs)>> \o Without(Tail(outs), address)

\* C10: remove_outputs_for(A) on a non-finalized transaction removes every
\* output to A and no other, keeps the order of the rest, and grows the
\* history by one RemoveOutput record per removed output.
C10_RemoveOutputsFor ==
    [][\A s \in Slots, a \in Addresses, failAt \in 0 .. 2 :
          (RemoveOutputsFor(s, a, failAt) /\ ~handles[s].transaction.finalized)
          => LET before == handles[s]
                 after == handles'[s]
                 kept == Without(before.transaction.outputs, a)
                 removed == Len(before.transaction.outputs) - Len(kept)
             IN  /\ failAt = 0 => result'.ret = "Ok"
                 /\ result'.ret = "Ok"
                    => /\ after.transaction.outputs = kept
                       /\ Len(after.operations) = Len(before.operations) + removed
                       /\ SubSeq(after.operations, 1, Len(before.operations))
                             = before.operations
                       /\ \A k \in Len(before.operations) + 1 .. Len(after.operations) :
                             after.operations[k].op = "RemoveOutput"
                       /\ Len(files'[before.id].recs)
                             = Len(files[before.id].recs) + removed]_vars

\* C10 witness: outputs [O1, O2, O3] to one address and O4 to the other became
\* [O4] with three RemoveOutput records
C10_Witness ==
    /\ result.call = "remove_outputs_for"
    /\ result.ret = "Ok"
    /\ handles[1].transaction.outputs = <<[address |-> 2, value |-> 1]>>
    /\ Len(handles[1].operations) = 7
    /\ \A k \in 1 .. 3 : handles[1].operations[k].a = 1
    /\ handles[1].operations[4] = OpAddOutput([address |-> 2, value |-> 1])
    /\ \A k \in 5 .. 7 : handles[1].operations[k] = OpRemoveOutput(0)

\* C11: no abrupt termination on caller-triggered invalid input. Every public
\* operation given invalid input, the import of a snapshot whose identity
\* already has a journal file included, returns an error value; no call ends
\* in a panic or a failed assertion.
C11_NoAbruptTermination == ~panicked /\ result.ret # "panic"

OperationSet ==
    {OpFinalize} \cup {OpSignature(w) : w \in Witnesses}
    \cup {OpAddInput(i) : i \in InputSet} \cup {OpRemoveInput(p) : p \in Outpoints}
    \cup {OpAddOutput(o) : o \in OutputSet} \cup {OpRemoveOutput(ix) : ix \in Indices}
    \cup {OpAddChange([address |-> a]) : a \in ChangeAddresses}
    \cup {OpRemoveChange(a) : a \in ChangeAddresses}

\* C13: edit step ordering. Within one edit the record is appended to the
\* staging file first, the Transaction is updated second and the history
\* last, so in no state of an edit, the states between its statements
\* included, does the in-memory Transaction reflect an operation that the
\* journal does not hold: it always equals the replay of the journal.
C13_EditStepOrdering ==
    [][\A s \in Slots, o \in OperationSet, ioOk \in BOOLEAN :
          (Edit(s, o, ioOk, result'.call)
           /\ Reopened(handles[s].id).h.transaction = handles[s].transaction)
          => LET steps == append_steps(handles[s], files[handles[s].id].recs, o, ioOk)
             IN  \A k \in 1 .. Len(steps) :
                    parse(handles[s].id, steps[k].recs).h.transaction
                       = steps[k].h.transaction]_vars

\* C14: the history mirrors the journal. Between two public calls on a live
\* handle the in-memory history equals the operation records the journal
\* holds after its two header records, in the same order; a successful edit
\* adds exactly one record at the end, an edit that returned an error adds
\* none, and no edit reorders, rewrites or removes a record.
C14_HistoryMirrorsJournal ==
    /\ [](\A s \in Slots :
            handles[s].live
            => LET recs == files[handles[s].id].recs
                   ops == handles[s].operations
               IN  /\ files[handles[s].id].exists
                   /\ Len(recs) = Len(ops) + 2
                   /\ \A k \in 1 .. Len(ops) : recs[k + 2] = serialize(ops[k]))
    /\ [][\A s \in Slots :
             (result'.call \in Mutators /\ result'.slot = s)
             => LET recs == files[handles[s].id].recs
                    after == files'[handles[s].id].recs
                IN  IF result'.ret = "Ok"
                    THEN /\ Len(after) = Len(recs) + 1
                         /\ SubSeq(after, 1, Len(recs)) = recs
                         /\ handles'[s].operations
                               = Append(handles[s].operations,
                                        deserialize(after[Len(after)]).op)
                    ELSE /\ after = recs
                         /\ handles'[s].operations = handles[s].operations]_vars

\* C14 witness: two edits were recorded, a third was refused by the journal
\* and a fourth by the Transaction; history and journal hold the first two
C14_Witness ==
    /\ result.call = "add_input"
    /\ result.ret = "TransactionIsInvalidState"
    /\ ioFailures = 1
    /\ handles[result.slot].live
    /\ handles[result.slot].operations
          = <<OpAddInput([ptr |-> 1, value |-> 1]),
              OpAddOutput([address |-> 1, value |-> 1])>>
    /\ Len(files[handles[result.slot].id].recs) = 4
    /\ handles[result.slot].transaction.finalized

RECURSIVE Accumulated(_, _)
\* the Transaction accumulated from the operation records 3 .. k of a journal,
\* a record that does not decode or is not accepted leaving it as it is
Accumulated(recs, k) ==
    IF k < 3 THEN NewTransaction
    ELSE LET before == Accumulated(recs, k - 1)
             d == deserialize(recs[k])
         IN  IF d.ok THEN update_with(before, d.op).tx ELSE before

\* record k does not decode, or decodes to an operation that the Transaction
\* accumulated from the records before it rejects
Corrupt(recs, k) ==
    \/ ~deserialize(recs[k]).ok
    \/ ~update_with(Accumulated(recs, k - 1), deserialize(recs[k]).op).ok

\* C15: open is all-or-nothing. When an operation record of a journal with a
\* well-formed header does not decode, or decodes to an operation that fails
\* validation against the records before it, read_from_file returns Operation
\* or TransactionIsInvalidState and no handle, and leaves the journal as it
\* is; a handle it does return holds every record of the journal.
C15_OpenAllOrNothing ==
    [][\A s \in Slots, id \in Ids :
          (ReadFromFile(s, id, TRUE) /\ files[id].exists /\ id \notin locks
           /\ Len(files[id].recs) >= 2 /\ files[id].recs[1] = MAGIC_TRANSACTION_V1
           /\ read_u32(files[id].recs[2]).ok)
          => LET recs == files[id].recs
                 bad == {k \in 3 .. Len(recs) : Corrupt(recs, k)}
                 first == CHOOSE k \in bad : \A j \in bad : k <= j
             IN  /\ files' = files
                 /\ bad # {}
                    => /\ result'.ret = IF deserialize(recs[first]).ok
                                        THEN "TransactionIsInvalidState"
                                        ELSE "Operation"
                       /\ handles' = handles
                       /\ locks' = locks
                 /\ bad = {}
                    => /\ result'.ret = "Ok"
                       /\ handles'[s].live
                       /\ Len(handles'[s].operations) = Len(recs) - 2
                       /\ handles'[s].transaction = Accumulated(recs, Len(recs))]_vars

\* C15 witness: a journal whose second AddInput spends the outpoint of the
\* first was refused, and no handle holds the first input
C15_Witness ==
    /\ result.call = "read_from_file"
    /\ result.ret = "TransactionIsInvalidState"
    /\ result.err = "DoubleSpend"
    /\ files[1].recs = <<MAGIC_TRANSACTION_V1, write_u32(764824073),
                         serialize(OpAddInput([ptr |-> 1, value |-> 1])),
                         serialize(OpAddInput([ptr |-> 1, value |-> 2]))>>
    /\ \A s \in Slots : ~handles[s].live
    /\ locks = {}

\* -------------------------------------------------------------------- lock
\* every way a handle of a journal found on disk comes and goes: opened,
\* created, imported, edited, closed, destroyed
NextLock ==
    \/ \E s \in Slots, id \in Ids, ioOk \in BOOLEAN : ReadFromFile(s, id, ioOk)
    \/ \E s \in Slots, pm \in ProtocolMagics, f \in 0 .. 3 : New(s, pm, f)
    \/ \E s \in Slots, f \in 0 .. 6 : Import(s, f)
    \/ \E s \in Slots : Export(s)
    \/ \E s \in Slots : Close(s)
    \/ \E s \in Slots, ioOk \in BOOLEAN : Destroy(s, ioOk)
    \/ \E s \in Slots, i \in InputSet, ioOk \in BOOLEAN : add_input(s, i, ioOk)

SpecLock == InitOpen /\ [][NextLock]_vars

\* the identities a live handle holds
Held == {handles[s].id : s \in {t \in Slots : handles[t].live}}

\* C16: the journal lock is released on every exit path. The locks held are
\* those of the live handles and no other; a close and a destroy, also one
\* whose deletion fails, free the lock of their handle; a read_from_file, new
\* or import that fails leaves no lock behind; and an open is refused for
\* contention only while a live handle holds that identity.
C16_LockReleased ==
    /\ [](locks = Held)
    /\ [][/\ \A s \in Slots : Close(s) => handles[s].id \notin locks'
          /\ \A s \in Slots, ioOk \in BOOLEAN :
                Destroy(s, ioOk)
                => /\ handles[s].id \notin locks'
                   /\ ioOk => ~files'[handles[s].id].exists
          /\ (result' # result /\ result'.call \in {"read_from_file", "new", "import"}
              /\ result'.ret # "Ok")
             => locks' = locks /\ handles' = handles
          /\ \A s \in Slots, id \in Ids, ioOk \in BOOLEAN :
                (ReadFromFile(s, id, ioOk) /\ result'.err = "LockError")
                => \E t \in Slots : handles[t].live /\ handles[t].id = id]_vars

\* C16 witness: destroy could not delete the file; the handle is gone, the
\* journal is still there and its lock is free
C16_Witness ==
    /\ result.call = "destroy"
    /\ result.ret = "AppendFile"
    /\ files[1].exists
    /\ Len(files[1].recs) >= 3
    /\ \A s \in Slots : ~handles[s].live
    /\ locks = {}

\* C17: export is read-only. It leaves the journal, the lock, the history and
\* the Transaction as they are and returns a snapshot with the identity, the
\* protocol magic and the Transaction of the handle, labelled with the
\* hexadecimal digits of the magic token (5452414e53414354494f4e5f5631); no
\* later call on the handle changes a snapshot already returned.
C17_ExportReadOnly ==
    [][/\ \A s \in Slots :
             Export(s)
             => /\ files' = files
                /\ locks' = locks
                /\ handles' = handles
                /\ snapshot'.present
                /\ snapshot'.staging_id = handles[s].id
                /\ snapshot'.protocol_magic = handles[s].protocol_magic
                /\ snapshot'.transaction = handles[s].transaction
                /\ snapshot'.magic
                      = <<5, 4, 5, 2, 4, 1, 4, 14, 5, 3, 4, 1, 4, 3, 5, 4, 4, 9, 4, 15,
                          4, 14, 5, 15, 5, 6, 3, 1>>
       /\ ~(\E s \in Slots : Export(s)) => snapshot' = snapshot]_vars

\* C17 witness: a handle opened from a journal with one input was exported
\* and then took a second input; the snapshot still holds the one input
C17_Witness ==
    /\ result.call = "add_input"
    /\ result.ret = "Ok"
    /\ snapshot.present
    /\ handles[result.slot].live
    /\ snapshot.staging_id = handles[result.slot].id
    /\ Len(snapshot.transaction.inputs) = 1
    /\ Len(handles[result.slot].transaction.inputs) = 2
    /\ SubSeq(handles[result.slot].transaction.inputs, 1, 1) = snapshot.transaction.inputs

\* C18: export/import asymmetry. import re-establishes inputs, outputs and
\* the finalized flag only: the imported transaction has no change entry and
\* no signature, its journal holds AddInput, AddOutput and Finalize records
\* only, and the imported Transaction equals the snapshot's exactly when the
\* snapshot has no change entries and no signatures.
C18_ImportAsymmetry ==
    [][\A s \in Slots, f \in 0 .. 6 :
          (Import(s, f) /\ result'.ret = "Ok")
          => LET tx == snapshot.transaction
                 h == handles'[s]
                 recs == files'[h.id].recs
             IN  /\ h.transaction.change = <<>>
                 /\ h.transaction.signatures = <<>>
                 /\ \A k \in 3 .. Len(recs) :
                       /\ deserialize(recs[k]).ok
                       /\ deserialize(recs[k]).op.op \in {"AddInput", "AddOutput", "Finalize"}
                 /\ \A k \in 1 .. Len(h.operations) :
                       h.operations[k].op \in {"AddInput", "AddOutput", "Finalize"}
                 /\ (h.transaction = tx) <=> (tx.change = <<>> /\ tx.signatures = <<>>)]_vars

\* C18 witness: a snapshot with one input, a change entry and no signature
\* was imported; the imported Transaction has the input and no change entry
C18_Witness ==
    /\ result.call = "import"
    /\ result.ret = "Ok"
    /\ Len(snapshot.transaction.inputs) = 1
    /\ Len(snapshot.transaction.change) = 1
    /\ snapshot.transaction.signatures = <<>>
    /\ handles[result.slot].transaction.inputs = snapshot.transaction.inputs
    /\ handles[result.slot].transaction.change = <<>>
    /\ handles[result.slot].transaction # snapshot.transaction
    /\ Len(files[snapshot.staging_id].recs) = 3

\* C19: a failed import is not rolled back. When import fails after the
\* journal was created, because a re-issued operation is rejected or because
\* an append fails, it returns an error and no handle, holds no lock, and
\* leaves a journal with the header and exactly the records of the operations
\* accepted before the failure; read_from_file reopens that journal as a
\* non-finalized transaction holding that prefix.
C19_FailedImportNotRolledBack ==
    [][\A s \in Slots, f \in {0} \cup 4 .. 6 :
          (Import(s, f) /\ ~files[snapshot.staging_id].exists
           /\ snapshot.staging_id \notin locks /\ result'.ret # "Ok")
          => LET tx == snapshot.transaction
                 id == snapshot.staging_id
                 ni == Len(tx.inputs)
                 recs == files'[id].recs
                 n == Len(recs) - 2
                 \* the inputs whose outpoint an earlier input already spends
                 dup == {k \in 1 .. ni : \E j \in 1 .. k - 1 : tx.inputs[j].ptr = tx.inputs[k].ptr}
                 r == read_from_file(files'[id], FALSE, id, TRUE)
             IN  /\ result'.ret \in {"TransactionIsInvalidState", "AppendFile"}
                 /\ handles' = handles
                 /\ locks' = locks
                 /\ files'[id].exists
                 /\ recs[1] = MAGIC_TRANSACTION_V1
                 /\ recs[2] = write_u32(snapshot.protocol_magic)
                 /\ IF f = 0
                    THEN /\ result'.ret = "TransactionIsInvalidState"
                         /\ n + 1 \in dup
                         /\ \A k \in dup : n + 1 <= k
                    ELSE result'.ret = "AppendFile" /\ n = f - 4
                 /\ \A k \in 1 .. n :
                       recs[k + 2] = IF k <= ni THEN serialize(OpAddInput(tx.inputs[k]))
                                     ELSE serialize(OpAddOutput(tx.outputs[k - ni]))
                 /\ r.ret = "Ok"
                 /\ ~r.h.transaction.finalized
                 /\ r.h.transaction.inputs = SubSeq(tx.inputs, 1, IF n <= ni THEN n ELSE ni)
                 /\ r.h.transaction.outputs = SubSeq(tx.outputs, 1, IF n <= ni THEN 0 ELSE n - ni)
                 /\ Len(r.h.operations) = n]_vars

\* C19 witness: the import of a snapshot whose two inputs spend one outpoint
\* failed at the second; the journal holds the header and the first input
C19_Witness ==
    /\ result.call = "import"
    /\ result.ret = "TransactionIsInvalidState"
    /\ result.err = "DoubleSpend"
    /\ Len(snapshot.transaction.inputs) = 2
    /\ files[snapshot.staging_id].recs
          = <<MAGIC_TRANSACTION_V1, write_u32(snapshot.protocol_magic),
              serialize(OpAddInput(snapshot.transaction.inputs[1]))>>
    /\ \A s \in Slots : ~handles[s].live
    /\ locks = {}

\* C20: remove_outputs_for always terminates. Every iteration of its loop
\* either advances the scan index by one or removes one output, so the loop
\* is left after at most len(outputs) iterations; a remove_output that fails
\* inside it ends the call with that error at the first output to the address
\* that is left, nothing after it being scanned; on a finalized transaction
\* with no output to the address the call returns Ok and appends nothing.
C20_RemoveOutputsForTerminates ==
    [][\A s \in Slots, a \in Addresses, failAt \in 0 .. 2 :
          RemoveOutputsFor(s, a, failAt)
          => LET h == handles[s]
                 outs == h.transaction.outputs
                 steps == remove_outputs_for_steps(h, files[h.id].recs, a, 0, failAt, 0,
                                                   Len(outs) + 1)
                 last == steps[Len(steps)]
                 matching == {k \in 1 .. Len(outs) : outs[k].address = a}
             IN  /\ Len(steps) - 1 <= Len(outs)
                 /\ last.ret # "Ok" \/ last.index = Len(last.h.transaction.outputs)
                 /\ last.h = handles'[s]
                 /\ last.recs = files'[h.id].recs
                 /\ last.ret = result'.ret
                 /\ \A k \in 1 .. Len(steps) - 1 :
                       LET before == steps[k]
                           after == steps[k + 1]
                       IN  \/ /\ after.index = before.index + 1
                              /\ after.h = before.h
                              /\ after.recs = before.recs
                           \/ /\ after.index = before.index
                              /\ after.ret = "Ok"
                              /\ Len(after.h.transaction.outputs)
                                    = Len(before.h.transaction.outputs) - 1
                              /\ Len(after.recs) = Len(before.recs) + 1
                           \/ /\ after.index = before.index
                              /\ after.ret # "Ok"
                              /\ k + 1 = Len(steps)
                              /\ after.recs = before.recs
                              /\ before.h.transaction.outputs[before.index + 1].address = a
                              /\ \A j \in 1 .. before.index :
                                    before.h.transaction.outputs[j].address # a
                 /\ (h.transaction.finalized /\ matching # {})
                    => /\ result'.ret = "TransactionIsInvalidState"
                       /\ last.index + 1 \in matching
                       /\ \A k \in matching : last.index + 1 <= k
                       /\ handles' = handles
                       /\ files' = files
                 /\ (h.transaction.finalized /\ matching = {})
                    => /\ result'.ret = "Ok"
                       /\ handles' = handles
                       /\ files' = files]_vars

\* C20 witness: of four outputs to one address the first was removed and the
\* journal refused the record of the second removal; the call ended there
\* with the error, two outputs unscanned
C20_Witness ==
    /\ result.call = "remove_outputs_for"
    /\ result.ret = "AppendFile"
    /\ handles[1].live
    /\ Len(handles[1].operations) = 5
    /\ handles[1].operations[5] = OpRemoveOutput(0)
    /\ \A k \in 1 .. 4 : handles[1].operations[k].op = "AddOutput"
                         /\ handles[1].operations[k].a = handles[1].operations[1].a
    /\ Len(files[1].recs) = 7
    /\ Len(handles[1].transaction.outputs) = 2

====
